---- MODULE Spec2Model ----
(***************************************************************************)
(* SH1107 display driver: command encoding (command.rs), the I2C and SPI   *)
(* display interfaces (interface/i2c.rs, interface/spi.rs) and the unused  *)
(* output pin (builder.rs).                                                *)
(*                                                                         *)
(* A state is what an observer of one display interface sees after a call  *)
(* returned: the hardware operations the call performed (log), its result  *)
(* (res), the chip-select level, and the inputs the call was given.        *)
(***************************************************************************)
EXTENDS Integers, Sequences, FiniteSets, TLC

\* ------------------------------------------------------------------ bounds
\* Longest data buffer handed to send_data, in whole chunks.
MaxChunks == 3
\* The same for the long buffers of SpecLong (a 128 x 64 frame is 16 chunks).
MaxLongChunks == 17

\* ------------------------------------------------------- program constants
CHUNKLEN == 64
BUFLEN == CHUNKLEN + 1
\* Size of the writebuf of I2C send_commands.
CMDBUFLEN == 8
\* Builder::new's default I2C address, and the datasheet's other address.
DefaultAddr == 60
AltAddr == 61

\* ------------------------------------------------------------- u8 helpers
U8 == 0..255

Bit(x, i) == (x \div (2 ^ i)) % 2

\* a | b on u8
BitOr(a, b) ==
    LET B(i) == IF Bit(a, i) = 1 \/ Bit(b, i) = 1 THEN 2 ^ i ELSE 0
    IN  B(0) + B(1) + B(2) + B(3) + B(4) + B(5) + B(6) + B(7)

\* Variant: the mask is dropped (`addr` instead of `0xF & addr`).
BitAndUnmasked(a, b) == b

\* a & b on u8
BitAnd(a, b) ==
    LET B(i) == IF Bit(a, i) = 1 /\ Bit(b, i) = 1 THEN 2 ^ i ELSE 0
    IN  B(0) + B(1) + B(2) + B(3) + B(4) + B(5) + B(6) + B(7)

\* a << n on u8 (bits shifted out of the byte are lost)
Shl(a, n) == (a * (2 ^ n)) % 256

\* a + b on u8: whether the sum leaves the type, and the sum as it wraps.
AddOverflows(a, b) == a + b \notin U8
WrappingAdd(a, b) == (a + b) % Cardinality(U8)

\* `b as u8` for a bool
BoolAsU8(b) == IF b THEN 1 ELSE 0

\* ------------------------------------------------------------ enum values
\* Page: the 16 variants, `page as u8` is the discriminant.
Pages == {"Page0", "Page1", "Page2", "Page3", "Page4", "Page5", "Page6", "Page7",
          "Page8", "Page9", "Page10", "Page11", "Page12", "Page13", "Page14", "Page15"}

PageAsU8(p) ==
    CASE p = "Page0" -> 0   [] p = "Page1" -> 1   [] p = "Page2" -> 2
      [] p = "Page3" -> 3   [] p = "Page4" -> 4   [] p = "Page5" -> 5
      [] p = "Page6" -> 6   [] p = "Page7" -> 7   [] p = "Page8" -> 8
      [] p = "Page9" -> 9   [] p = "Page10" -> 10 [] p = "Page11" -> 11
      [] p = "Page12" -> 12 [] p = "Page13" -> 13 [] p = "Page14" -> 14
      [] p = "Page15" -> 15

\* VcomhLevel: the 4 variants, `level as u8` is the discriminant.
VcomhLevels == {"V065", "V077", "V083", "Auto"}

VcomhAsU8(l) ==
    CASE l = "V065" -> 34 [] l = "V077" -> 53 [] l = "V083" -> 62 [] l = "Auto" -> 64

\* --------------------------------------------------------------- commands
\* The Command values whose u8 parameters range over B.
Commands(B) ==
    {[tag |-> "Contrast", val |-> v] : v \in B}
    \cup {[tag |-> "AllOn", on |-> b] : b \in BOOLEAN}
    \cup {[tag |-> "Invert", inv |-> b] : b \in BOOLEAN}
    \cup {[tag |-> "DisplayOn", on |-> b] : b \in BOOLEAN}
    \cup {[tag |-> "ColumnAddressLow", addr |-> v] : v \in B}
    \cup {[tag |-> "ColumnAddressHigh", addr |-> v] : v \in B}
    \cup {[tag |-> "MemAddressMode", mode |-> v] : v \in B}
    \cup {[tag |-> "PageAddress", page |-> p] : p \in Pages}
    \cup {[tag |-> "StartLine", line |-> v] : v \in B}
    \cup {[tag |-> "SegmentRemap", remap |-> b] : b \in BOOLEAN}
    \cup {[tag |-> "Multiplex", ratio |-> v] : v \in B}
    \cup {[tag |-> "ReverseComDir", rev |-> b] : b \in BOOLEAN}
    \cup {[tag |-> "DisplayOffset", offset |-> v] : v \in B}
    \cup {[tag |-> "ComPinConfig", alt |-> b] : b \in BOOLEAN}
    \cup {[tag |-> "DisplayClockDiv", fosc |-> f, div |-> d] : f \in B, d \in B}
    \cup {[tag |-> "PreChargePeriod", discharge |-> f, precharge |-> d] : f \in B, d \in B}
    \cup {[tag |-> "VcomhDeselect", level |-> l] : l \in VcomhLevels}
    \cup {[tag |-> "Noop"]}
    \cup {[tag |-> "ChargePump", en |-> b] : b \in BOOLEAN}

\* The 7-byte array with the given leading bytes, zero after them.
Data1(b0) == <<b0, 0, 0, 0, 0, 0, 0>>
Data2(b0, b1) == <<b0, b1, 0, 0, 0, 0, 0>>

\* The match of Command::send: the fixed-size array and the real length.
Encode(c) ==
    CASE c.tag = "Contrast" -> [data |-> Data2(129, c.val), len |-> 2]
      [] c.tag = "AllOn" -> [data |-> Data1(BitOr(164, BoolAsU8(c.on))), len |-> 1]
      [] c.tag = "Invert" -> [data |-> Data1(BitOr(166, BoolAsU8(c.inv))), len |-> 1]
      [] c.tag = "DisplayOn" -> [data |-> Data1(BitOr(174, BoolAsU8(c.on))), len |-> 1]
      [] c.tag = "ColumnAddressLow" -> [data |-> Data1(BitAnd(15, c.addr)), len |-> 1]
      [] c.tag = "ColumnAddressHigh" ->
            [data |-> Data1(BitOr(16, BitAnd(15, c.addr))), len |-> 1]
      [] c.tag = "MemAddressMode" -> [data |-> Data1(BitOr(32, c.mode)), len |-> 1]
      [] c.tag = "PageAddress" -> [data |-> Data1(BitOr(176, PageAsU8(c.page))), len |-> 1]
      [] c.tag = "StartLine" -> [data |-> Data2(220, c.line), len |-> 2]
      [] c.tag = "SegmentRemap" -> [data |-> Data1(BitOr(160, BoolAsU8(c.remap))), len |-> 1]
      [] c.tag = "Multiplex" -> [data |-> Data2(168, c.ratio), len |-> 2]
      [] c.tag = "ReverseComDir" ->
            [data |-> Data1(BitOr(192, Shl(BoolAsU8(c.rev), 3))), len |-> 1]
      [] c.tag = "DisplayOffset" -> [data |-> Data2(211, c.offset), len |-> 2]
      [] c.tag = "ComPinConfig" ->
            [data |-> Data2(218, BitOr(2, Shl(BoolAsU8(c.alt), 4))), len |-> 2]
      [] c.tag = "DisplayClockDiv" ->
            [data |-> Data2(213, BitOr(Shl(BitAnd(15, c.fosc), 4), BitAnd(15, c.div))),
             len |-> 2]
      [] c.tag = "PreChargePeriod" ->
            [data |-> Data2(217, BitOr(Shl(BitAnd(15, c.discharge), 4),
                                       BitAnd(15, c.precharge))),
             len |-> 2]
      [] c.tag = "VcomhDeselect" -> [data |-> Data2(219, VcomhAsU8(c.level)), len |-> 2]
      [] c.tag = "Noop" -> [data |-> Data1(227), len |-> 1]
      [] c.tag = "ChargePump" -> [data |-> Data2(173, BitOr(138, BoolAsU8(c.en))), len |-> 2]

\* Variant: the whole array is handed over (&data instead of &data[0..len]).
CommandSliceWhole(e) == e.data

\* &data[0..len]: the slice Command::send hands to send_commands.
CommandSlice(e) == SubSeq(e.data, 1, e.len)

\* ---------------------------------------------------- hardware capabilities
\* What the bus and the pins do during one call: the failAt-th hardware
\* operation of the call is rejected (0: none is), a rejected bus write
\* reports busErr and a rejected pin operation reports pinErr.
BusErrs == {"BusNack", "BusArbitrationLoss"}
PinErrs == {"PinStuck", "PinBusy"}

NoFault == [failAt |-> 0, busErr |-> "BusNack", pinErr |-> "PinStuck"]

\* The error values of one faulty run: a bus error and a pin error.
Faults == {<<"BusNack", "PinStuck">>, <<"BusArbitrationLoss", "PinBusy">>}

Envs(maxop) ==
    {NoFault} \cup {[failAt |-> k, busErr |-> f[1], pinErr |-> f[2]] :
                        k \in 1..maxop, f \in Faults}

Fails(k, env) == k = env.failAt

\* One hardware operation as the log records it. cs is the chip-select level
\* at the moment the operation starts.
Event(op, a, bytes, ok, cs) ==
    [op |-> op, addr |-> a, bytes |-> bytes, ok |-> ok, cs |-> cs]

\* Results of a call.
Ok == [tag |-> "Ok", kind |-> "-", val |-> "-"]
Panic == [tag |-> "Panic", kind |-> "-", val |-> "-"]
\* Error::Comm(e) and Error::Pin(e)
ErrorComm(e) == [tag |-> "Err", kind |-> "Comm", val |-> e]
ErrorPin(e) == [tag |-> "Err", kind |-> "Pin", val |-> e]

\* Variant: a failed bus write reported through the pin variant.
MapErrCommAsPin(ok, e) == IF ok THEN Ok ELSE ErrorPin(e)

\* .map_err(Error::Comm) and .map_err(Error::Pin) on the result of a
\* hardware operation that succeeded (ok) or failed with e.
MapErrComm(ok, e) == IF ok THEN Ok ELSE ErrorComm(e)
MapErrPin(ok, e) == IF ok THEN Ok ELSE ErrorPin(e)

\* ---------------------------------------------------------------- state
VARIABLES
    kind,       \* "i2c" or "spi": the interface that was constructed
    addr,       \* I2cInterface.addr
    csKind,     \* "pin": a real chip-select pin; "none": NoOutputPin (or I2C)
    csLevel,    \* level of the chip-select line: "high", "low" ("none": no line)
    dcOps,      \* number of set operations the data/command pin has received
    page,       \* value of send_data's page counter when it last returned
    pageBefore, \* the same, when the last call started
    cmd,        \* the Command of the last call, when it was Command::send
    call,       \* the last call: [op, bytes], bytes as handed to the interface
    env,        \* what the hardware did during the last call
    log,        \* hardware operations of the last call, in order
    res,        \* result of the last call
    csBefore,   \* chip-select level when the last call started
    healthy,    \* init has succeeded and no call has failed since
    overflowChecks \* the build: TRUE when integer overflow panics (rustc's
                \* debug profile), FALSE when it wraps (the release profile)

vars == <<kind, addr, csKind, csLevel, dcOps, page, pageBefore, cmd, call, env, log, res,
          csBefore, healthy, overflowChecks>>

NoCmd == [tag |-> "None"]

\* -------------------------------------------------------------- I2C
\* I2cInterface::init
I2cInit == [log |-> <<>>, res |-> Ok]

\* writebuf of send_commands: 8 zero bytes, cmds copied to writebuf[1..=len].
CommandWritebuf(cmds) ==
    [i \in 1..CMDBUFLEN |-> IF 2 <= i /\ i <= Len(cmds) + 1 THEN cmds[i - 1] ELSE 0]

\* Variant: the exclusive range &writebuf[..cmds.len()], one byte short.
CommandFrameShort(cmds) == SubSeq(CommandWritebuf(cmds), 1, Len(cmds))

\* &writebuf[..=cmds.len()]
CommandFrame(cmds) == SubSeq(CommandWritebuf(cmds), 1, Len(cmds) + 1)

\* Variant: a sequence too long for writebuf is cut to what fits and written.
I2cSendCommandsTruncating(a, cmds, e) ==
    LET fit == SubSeq(cmds, 1, IF Len(cmds) < CMDBUFLEN - 1 THEN Len(cmds) ELSE CMDBUFLEN - 1)
        ok == ~Fails(1, e)
    IN  [log |-> <<Event("i2c_write", a, <<0>> \o fit, ok, "none")>>,
         res |-> MapErrComm(ok, e.busErr)]

\* I2cInterface::send_commands. Slicing writebuf[1..=len] panics when the
\* range ends past the 8-byte array.
I2cSendCommands(a, cmds, e) ==
    IF Len(cmds) + 1 > CMDBUFLEN
    THEN [log |-> <<>>, res |-> Panic]
    ELSE LET ok == ~Fails(1, e)
         IN  [log |-> <<Event("i2c_write", a, CommandFrame(cmds), ok, "none")>>,
              res |-> MapErrComm(ok, e.busErr)]

\* buf.chunks(CHUNKLEN): consecutive chunks of 64 bytes, the last one shorter
\* when the length is no multiple of 64.
Chunks(buf) ==
    LET n == Len(buf)
        c == (n + CHUNKLEN - 1) \div CHUNKLEN
    IN  [i \in 1..c |->
            SubSeq(buf, (i - 1) * CHUNKLEN + 1,
                   IF i * CHUNKLEN < n THEN i * CHUNKLEN ELSE n)]

\* Variant: the counter kept across calls (a field instead of a local).
StalePage == page

\* let mut page = Page::Page0 as u8
StartPage == PageAsU8("Page0")

\* Variant: the lower column address 2 of the SH1106 driver.
PageSelectFrameColumn2(pg) == <<0, pg, 2, 16>>

\* [0x00, page, 0x00, 0x10]
PageSelectFrame(pg) == <<0, pg, 0, 16>>

\* Variant: the chunk copied to writebuf[0..BUFLEN - 1], over the marker byte.
CopyChunkOverMarker(writebuf, chunk) == chunk \o <<writebuf[BUFLEN]>>

\* writebuf[1..BUFLEN].copy_from_slice(&chunk), writebuf[0] left intact.
CopyChunk(writebuf, chunk) == <<writebuf[1]>> \o chunk

\* The locals of send_data between two iterations of its for loop: the bus
\* writes issued so far, the page counter, writebuf, and whether the function
\* has been left (by `?` or by a panic) with the result res.
LoopStart(lg) ==
    [log |-> lg, res |-> Ok, page |-> StartPage, done |-> FALSE,
     writebuf |-> [i \in 1..BUFLEN |-> IF i = 1 THEN 64 ELSE 0]]

\* Variant: the result of the page-select write is dropped (no `?`), so the
\* iteration goes on to the data write whatever the bus answered.
I2cSendDataChunkUnchecked(a, chunk, st, e) ==
    IF Len(chunk) # BUFLEN - 1
    THEN [st EXCEPT !.res = Panic, !.done = TRUE]
    ELSE LET wb == <<st.writebuf[1]>> \o chunk
             ok1 == ~Fails(Len(st.log) + 1, e)
             lg1 == Append(st.log, Event("i2c_write", a, <<0, st.page, 0, 16>>, ok1, "none"))
             ok2 == ~Fails(Len(lg1) + 1, e)
             lg2 == Append(lg1, Event("i2c_write", a, wb, ok2, "none"))
         IN  IF ~ok2
             THEN [st EXCEPT !.log = lg2, !.writebuf = wb,
                             !.res = ErrorComm(e.busErr), !.done = TRUE]
             ELSE IF AddOverflows(st.page, 1) /\ overflowChecks
             THEN [st EXCEPT !.log = lg2, !.writebuf = wb, !.res = Panic, !.done = TRUE]
             ELSE [st EXCEPT !.log = lg2, !.writebuf = wb, !.page = WrappingAdd(st.page, 1)]

\* One iteration of the for loop of send_data, on one chunk. copy_from_slice
\* panics when the chunk is not exactly BUFLEN - 1 bytes long. `page += 1` on
\* the u8 counter at 255 (after the data write of the 256th chunk) panics in
\* a build with overflow checks and wraps to 0 in a build without them.
I2cSendDataChunk(a, chunk, st, e) ==
    IF Len(chunk) # BUFLEN - 1
    THEN [st EXCEPT !.res = Panic, !.done = TRUE]
    ELSE LET wb == CopyChunk(st.writebuf, chunk)
             ok1 == ~Fails(Len(st.log) + 1, e)
             lg1 == Append(st.log, Event("i2c_write", a, PageSelectFrame(st.page), ok1, "none"))
             ok2 == ~Fails(Len(lg1) + 1, e)
             lg2 == Append(lg1, Event("i2c_write", a, wb, ok2, "none"))
         IN  IF ~ok1
             THEN [st EXCEPT !.log = lg1, !.writebuf = wb,
                             !.res = MapErrComm(ok1, e.busErr), !.done = TRUE]
             ELSE IF ~ok2
             THEN [st EXCEPT !.log = lg2, !.writebuf = wb,
                             !.res = MapErrComm(ok2, e.busErr), !.done = TRUE]
             ELSE IF AddOverflows(st.page, 1) /\ overflowChecks
             THEN [st EXCEPT !.log = lg2, !.writebuf = wb, !.res = Panic, !.done = TRUE]
             ELSE [st EXCEPT !.log = lg2, !.writebuf = wb, !.page = WrappingAdd(st.page, 1)]

\* The for loop of send_data over the chunks lo..hi, in order, from the locals
\* st: no iteration runs once the function has been left. (The range is run
\* as its first half and then its second half, which keeps the evaluation of
\* a loop over hundreds of chunks shallow.) After the last chunk the result
\* is the Ok(()) the locals started with.
RECURSIVE I2cSendDataLoop(_, _, _, _, _, _)
I2cSendDataLoop(a, chunks, lo, hi, st, e) ==
    IF st.done \/ lo > hi THEN st
    ELSE IF lo = hi THEN I2cSendDataChunk(a, chunks[lo], st, e)
    ELSE LET mid == (lo + hi) \div 2
         IN  I2cSendDataLoop(a, chunks, mid + 1, hi,
                             I2cSendDataLoop(a, chunks, lo, mid, st, e), e)

\* Variant: page 0 is selected before the buffer is looked at.
I2cSendDataSelectFirst(a, buf, e) ==
    LET ok == ~Fails(1, e)
        lg == <<Event("i2c_write", a, PageSelectFrame(StartPage), ok, "none")>>
    IN  IF ~ok \/ Len(buf) = 0
        THEN [log |-> lg, res |-> MapErrComm(ok, e.busErr), page |-> StartPage]
        ELSE I2cSendDataLoop(a, Chunks(buf), 1, Len(Chunks(buf)), LoopStart(lg), e)

\* I2cInterface::send_data
I2cSendData(a, buf, e) ==
    IF Len(buf) = 0
    THEN [log |-> <<>>, res |-> Ok, page |-> page]
    ELSE I2cSendDataLoop(a, Chunks(buf), 1, Len(Chunks(buf)), LoopStart(<<>>), e)

\* -------------------------------------------------------------- pins
\* Variant: the unused pin rejects the operation.
NoOutputPinSetRejected(lvl) == [ok |-> FALSE, level |-> lvl]

\* NoOutputPin::set_low and NoOutputPin::set_high: Ok(()), nothing changes.
NoOutputPinSet(lvl) == [ok |-> TRUE, level |-> lvl]

\* set_low / set_high of a real output pin, as operation number k of the
\* call: rejected, the line keeps its level; accepted, it takes the target.
OutputPinSet(target, lvl, k, e) ==
    IF Fails(k, e) THEN [ok |-> FALSE, level |-> lvl]
    ELSE [ok |-> TRUE, level |-> target]

\* self.cs.set_low() / self.cs.set_high() on the pin the interface owns.
CsSet(ck, target, lvl, k, e) ==
    IF ck = "none" THEN NoOutputPinSet(lvl) ELSE OutputPinSet(target, lvl, k, e)

\* -------------------------------------------------------------- SPI
\* Variant: init selects the device (set_low) instead of deselecting it.
SpiInitSelect(ck, lvl, e) ==
    LET lo == CsSet(ck, "low", lvl, 1, e)
    IN  [log |-> <<Event("cs_low", 0, <<>>, lo.ok, lvl)>>,
         res |-> MapErrPin(lo.ok, e.pinErr),
         cs  |-> lo.level]

\* SpiInterface::init
SpiInit(ck, lvl, e) ==
    LET hi == CsSet(ck, "high", lvl, 1, e)
    IN  [log |-> <<Event("cs_high", 0, <<>>, hi.ok, lvl)>>,
         res |-> MapErrPin(hi.ok, e.pinErr),
         cs  |-> hi.level]

\* Variant: the data/command pin is driven around the write (the two
\* commented-out lines of send_commands).
SpiSendCommandsWithDc(ck, lvl, cmds, e) ==
    LET lo  == CsSet(ck, "low", lvl, 1, e)
        lg1 == <<Event("cs_low", 0, <<>>, lo.ok, lvl)>>
        lg2 == Append(lg1, Event("dc_low", 0, <<>>, TRUE, lo.level))
        wok == ~Fails(2, e)
        lg3 == Append(lg2, Event("spi_write", 0, cmds, wok, lo.level))
        lg4 == Append(lg3, Event("dc_high", 0, <<>>, TRUE, lo.level))
        hi  == CsSet(ck, "high", lo.level, 3, e)
        lg5 == Append(lg4, Event("cs_high", 0, <<>>, hi.ok, lo.level))
    IN  IF ~lo.ok
        THEN [log |-> lg1, res |-> MapErrPin(lo.ok, e.pinErr), cs |-> lo.level]
        ELSE IF ~wok
        THEN [log |-> lg3, res |-> MapErrComm(wok, e.busErr), cs |-> lo.level]
        ELSE [log |-> lg5, res |-> MapErrPin(hi.ok, e.pinErr), cs |-> hi.level]

\* Variant: chip-select is released before a failed write is reported.
SpiSendCommandsDeselectOnError(ck, lvl, cmds, e) ==
    LET lo  == CsSet(ck, "low", lvl, 1, e)
        lg1 == <<Event("cs_low", 0, <<>>, lo.ok, lvl)>>
        wok == ~Fails(2, e)
        lg2 == Append(lg1, Event("spi_write", 0, cmds, wok, lo.level))
        hi  == CsSet(ck, "high", lo.level, 3, e)
        lg3 == Append(lg2, Event("cs_high", 0, <<>>, hi.ok, lo.level))
    IN  IF ~lo.ok
        THEN [log |-> lg1, res |-> MapErrPin(lo.ok, e.pinErr), cs |-> lo.level]
        ELSE IF ~wok
        THEN [log |-> lg3, res |-> MapErrComm(wok, e.busErr), cs |-> hi.level]
        ELSE [log |-> lg3, res |-> MapErrPin(hi.ok, e.pinErr), cs |-> hi.level]

\* SpiInterface::send_commands
SpiSendCommands(ck, lvl, cmds, e) ==
    LET lo  == CsSet(ck, "low", lvl, 1, e)
        lg1 == <<Event("cs_low", 0, <<>>, lo.ok, lvl)>>
        wok == ~Fails(2, e)
        lg2 == Append(lg1, Event("spi_write", 0, cmds, wok, lo.level))
        hi  == CsSet(ck, "high", lo.level, 3, e)
        lg3 == Append(lg2, Event("cs_high", 0, <<>>, hi.ok, lo.level))
    IN  IF ~lo.ok
        THEN [log |-> lg1, res |-> MapErrPin(lo.ok, e.pinErr), cs |-> lo.level]
        ELSE IF ~wok
        THEN [log |-> lg2, res |-> MapErrComm(wok, e.busErr), cs |-> lo.level]
        ELSE [log |-> lg3, res |-> MapErrPin(hi.ok, e.pinErr), cs |-> hi.level]

\* Variant: the final set_high is missing.
SpiSendDataNoDeselect(ck, lvl, buf, e) ==
    LET lo  == CsSet(ck, "low", lvl, 1, e)
        lg1 == <<Event("cs_low", 0, <<>>, lo.ok, lvl)>>
        wok == ~Fails(2, e)
        lg2 == Append(lg1, Event("spi_write", 0, buf, wok, lo.level))
    IN  IF ~lo.ok
        THEN [log |-> lg1, res |-> MapErrPin(lo.ok, e.pinErr), cs |-> lo.level]
        ELSE [log |-> lg2, res |-> MapErrComm(wok, e.busErr), cs |-> lo.level]

\* SpiInterface::send_data
SpiSendData(ck, lvl, buf, e) ==
    LET lo  == CsSet(ck, "low", lvl, 1, e)
        lg1 == <<Event("cs_low", 0, <<>>, lo.ok, lvl)>>
        wok == ~Fails(2, e)
        lg2 == Append(lg1, Event("spi_write", 0, buf, wok, lo.level))
        hi  == CsSet(ck, "high", lo.level, 3, e)
        lg3 == Append(lg2, Event("cs_high", 0, <<>>, hi.ok, lo.level))
    IN  IF ~lo.ok
        THEN [log |-> lg1, res |-> MapErrPin(lo.ok, e.pinErr), cs |-> lo.level]
        ELSE IF ~wok
        THEN [log |-> lg2, res |-> MapErrComm(wok, e.busErr), cs |-> lo.level]
        ELSE [log |-> lg3, res |-> MapErrPin(hi.ok, e.pinErr), cs |-> hi.level]

\* Number of set operations on the data/command pin among the events.
DcOpsIn(lg) == Cardinality({i \in 1..Len(lg) : lg[i].op \in {"dc_low", "dc_high"}})

\* ------------------------------------------------------------- inputs
\* Byte values the command parameters are drawn from in Spec.
ByteSamples == {165}

\* A buffer of n bytes, all positions distinguishable within a chunk.
Buf(n, seed) == [i \in 1..n |-> (seed + 7 * i) % 256]
Seeds == {1}

\* Lengths of the data buffers: whole chunks, and short or nearly full tails.
Tails == {0, 2, 63}
DataLens ==
    {k * CHUNKLEN + d : k \in 0..(MaxChunks - 1), d \in Tails} \cup {MaxChunks * CHUNKLEN}
DataBufs == {Buf(n, s) : n \in DataLens, s \in Seeds}

\* Raw command sequences: 0 to 9 bytes.
CmdBufs == {Buf(n, 1) : n \in 0..(CMDBUFLEN + 1)}

\* Largest number of hardware operations a call performs.
MaxOps(op) ==
    IF kind = "spi" THEN (IF op = "init" THEN 1 ELSE 3)
    ELSE IF op = "send_data" THEN 2 * MaxChunks
    ELSE IF op = "init" THEN 0 ELSE 1

\* ---------------------------------------------------------- the machine
\* Builder::connect_i2c / connect_spi -> I2cInterface::new / SpiInterface::new.
\* A real chip-select line is at either level before init.
Init ==
    /\ kind \in {"i2c", "spi"}
    /\ IF kind = "i2c"
       THEN addr \in {DefaultAddr, AltAddr} /\ csKind = "none" /\ csLevel = "none"
       ELSE /\ addr = 0
            /\ csKind \in {"pin", "none"}
            /\ IF csKind = "pin" THEN csLevel \in {"high", "low"} ELSE csLevel = "none"
    /\ dcOps = 0
    /\ page = 0
    /\ pageBefore = 0
    /\ cmd = NoCmd
    /\ call = [op |-> "new", bytes |-> <<>>]
    /\ env = NoFault
    /\ log = <<>>
    /\ res = Ok
    /\ csBefore = csLevel
    /\ healthy = FALSE
    /\ overflowChecks \in BOOLEAN

\* What every call leaves behind, given its outcome o.
Returned(op, bytes, c, e, o) ==
    /\ call' = [op |-> op, bytes |-> bytes]
    /\ cmd' = c
    /\ env' = e
    /\ log' = o.log
    /\ res' = o.res
    /\ csBefore' = csLevel
    /\ pageBefore' = page
    /\ dcOps' = dcOps + DcOpsIn(o.log)
    /\ UNCHANGED <<kind, addr, csKind, overflowChecks>>

\* DisplayInterface::init
CallInit(e) ==
    /\ res.tag # "Panic"
    /\ LET o == IF kind = "i2c" THEN I2cInit ELSE SpiInit(csKind, csLevel, e)
       IN  /\ Returned("init", <<>>, NoCmd, e, o)
           /\ csLevel' = (IF kind = "i2c" THEN csLevel ELSE o.cs)
           /\ healthy' = (o.res = Ok)
           /\ UNCHANGED page

\* iface.send_commands(cmds) on the constructed interface.
IfaceSendCommands(cmds, e) ==
    IF kind = "i2c"
    THEN LET o == I2cSendCommands(addr, cmds, e)
         IN  [log |-> o.log, res |-> o.res, cs |-> csLevel]
    ELSE SpiSendCommands(csKind, csLevel, cmds, e)

\* DisplayInterface::send_commands with a raw byte sequence
CallSendCommands(cmds, e) ==
    /\ res.tag # "Panic"
    /\ LET o == IfaceSendCommands(cmds, e)
       IN  /\ Returned("send_commands", cmds, NoCmd, e, o)
           /\ csLevel' = o.cs
           /\ healthy' = (healthy /\ o.res = Ok)
           /\ UNCHANGED page

\* Command::send(self, iface)
CommandSend(c, e) ==
    /\ res.tag # "Panic"
    /\ LET cmds == CommandSlice(Encode(c))
           o == IfaceSendCommands(cmds, e)
       IN  /\ Returned("send_commands", cmds, c, e, o)
           /\ csLevel' = o.cs
           /\ healthy' = (healthy /\ o.res = Ok)
           /\ UNCHANGED page

\* DisplayInterface::send_data
CallSendData(buf, e) ==
    /\ res.tag # "Panic"
    /\ IF kind = "i2c"
       THEN LET o == I2cSendData(addr, buf, e)
            IN  /\ Returned("send_data", buf, NoCmd, e, o)
                /\ page' = o.page
                /\ healthy' = (healthy /\ o.res = Ok)
                /\ UNCHANGED csLevel
       ELSE LET o == SpiSendData(csKind, csLevel, buf, e)
            IN  /\ Returned("send_data", buf, NoCmd, e, o)
                /\ csLevel' = o.cs
                /\ healthy' = (healthy /\ o.res = Ok)
                /\ UNCHANGED page

Next ==
    \/ \E e \in Envs(MaxOps("init")) : CallInit(e)
    \/ \E cmds \in CmdBufs, e \in Envs(MaxOps("send_commands")) : CallSendCommands(cmds, e)
    \/ \E c \in Commands(ByteSamples), e \in Envs(MaxOps("send_commands")) : CommandSend(c, e)
    \/ \E buf \in DataBufs, e \in Envs(MaxOps("send_data")) : CallSendData(buf, e)

Spec == Init /\ [][Next]_vars

\* Command::send on every Command value: the command is drawn at the start
\* and sent once, over either interface, with no hardware fault.
InitCmd ==
    /\ cmd \in Commands(U8)
    /\ kind \in {"i2c", "spi"}
    /\ addr = (IF kind = "i2c" THEN DefaultAddr ELSE 0)
    /\ csKind = (IF kind = "i2c" THEN "none" ELSE "pin")
    /\ csLevel = (IF kind = "i2c" THEN "none" ELSE "high")
    /\ dcOps = 0
    /\ page = 0
    /\ pageBefore = 0
    /\ call = [op |-> "pending", bytes |-> <<>>]
    /\ env = NoFault
    /\ log = <<>>
    /\ res = Ok
    /\ csBefore = csLevel
    /\ healthy = FALSE
    /\ overflowChecks \in BOOLEAN

SendPending == call.op = "pending" /\ CommandSend(cmd, NoFault)

NextCmd == SendPending

SpecCmd == InitCmd /\ [][NextCmd]_vars

\* I2C send_data on long buffers of whole chunks, up to MaxLongChunks chunks,
\* with a bus that may reject one of the first writes; and on buffers of as
\* many chunks as the u8 page counter has values, one fewer and one more
\* (255, 256 and 257 chunks), with a bus that accepts every write or rejects
\* the first write past the 256th pair.
LongLens == {CHUNKLEN} \cup {CHUNKLEN * k : k \in (MaxLongChunks - 2)..MaxLongChunks}
LongBufs == {Buf(n, 1) : n \in LongLens}

WrapChunks == Cardinality(U8)
WrapLens == {CHUNKLEN * k : k \in (WrapChunks - 1)..(WrapChunks + 1)}
WrapBufs == {Buf(n, 1) : n \in WrapLens}
WrapEnvs ==
    {NoFault, [failAt |-> 2 * WrapChunks + 1, busErr |-> "BusNack", pinErr |-> "PinStuck"]}

InitLong == Init /\ kind = "i2c" /\ addr = DefaultAddr

SendDataLong == \E buf \in LongBufs, e \in Envs(4) : CallSendData(buf, e)

SendDataWrap == \E buf \in WrapBufs, e \in WrapEnvs : CallSendData(buf, e)

NextLong == SendDataLong \/ SendDataWrap

SpecLong == InitLong /\ [][NextLong]_vars

\* ------------------------------------------------------------ Page::from
\* Variant: a row past the last page saturates to Page15 instead of panicking.
PageFromSaturating(val) ==
    LET q == val \div 8
    IN  [tag |-> "Ok", kind |-> "Page",
         val |-> CHOOSE p \in Pages : PageAsU8(p) = (IF q > 15 THEN 15 ELSE q)]

\* impl From<u8> for Page: match val / 8, one arm per page, panic otherwise.
PageFrom(val) ==
    LET q == val \div 8
        page_(p) == [tag |-> "Ok", kind |-> "Page", val |-> p]
    IN  CASE q = 0 -> page_("Page0")   [] q = 1 -> page_("Page1")
          [] q = 2 -> page_("Page2")   [] q = 3 -> page_("Page3")
          [] q = 4 -> page_("Page4")   [] q = 5 -> page_("Page5")
          [] q = 6 -> page_("Page6")   [] q = 7 -> page_("Page7")
          [] q = 8 -> page_("Page8")   [] q = 9 -> page_("Page9")
          [] q = 10 -> page_("Page10") [] q = 11 -> page_("Page11")
          [] q = 12 -> page_("Page12") [] q = 13 -> page_("Page13")
          [] q = 14 -> page_("Page14") [] q = 15 -> page_("Page15")
          [] OTHER -> Panic

\* Page::from on every u8: the row index is drawn at the start and converted
\* once; res holds the Page, or the panic.
InitPage ==
    /\ call \in {[op |-> "pending_page", bytes |-> <<r>>] : r \in U8}
    /\ kind = "i2c" /\ addr = DefaultAddr /\ csKind = "none" /\ csLevel = "none"
    /\ dcOps = 0 /\ page = 0 /\ pageBefore = 0
    /\ cmd = NoCmd /\ env = NoFault /\ log = <<>> /\ res = Ok
    /\ csBefore = csLevel /\ healthy = FALSE
    /\ overflowChecks \in BOOLEAN

PageFromPending ==
    /\ call.op = "pending_page"
    /\ call' = [op |-> "Page::from", bytes |-> call.bytes]
    /\ res' = PageFrom(call.bytes[1])
    /\ UNCHANGED <<kind, addr, csKind, csLevel, dcOps, page, pageBefore, cmd, env, log,
                   csBefore, healthy, overflowChecks>>

NextPage == PageFromPending

SpecPage == InitPage /\ [][NextPage]_vars

\* ------------------------------------------------------------- claims
\* The encoding table of the specification (section 4.1), by arithmetic.
PageOrder == <<"Page0", "Page1", "Page2", "Page3", "Page4", "Page5", "Page6", "Page7",
               "Page8", "Page9", "Page10", "Page11", "Page12", "Page13", "Page14", "Page15">>
PageIndex(p) == CHOOSE i \in 0..15 : PageOrder[i + 1] = p
Flag(b) == IF b THEN 1 ELSE 0
VcomhByte(l) == CASE l = "V065" -> 34 [] l = "V077" -> 53 [] l = "V083" -> 62 [] l = "Auto" -> 64

TableBytes(c) ==
    CASE c.tag = "Contrast" -> <<129, c.val>>
      [] c.tag = "AllOn" -> <<164 + Flag(c.on)>>
      [] c.tag = "Invert" -> <<166 + Flag(c.inv)>>
      [] c.tag = "DisplayOn" -> <<174 + Flag(c.on)>>
      [] c.tag = "ColumnAddressLow" -> <<c.addr % 16>>
      [] c.tag = "ColumnAddressHigh" -> <<16 + (c.addr % 16)>>
      [] c.tag = "MemAddressMode" ->
            <<IF (c.mode \div 32) % 2 = 1 THEN c.mode ELSE c.mode + 32>>
      [] c.tag = "PageAddress" -> <<176 + PageIndex(c.page)>>
      [] c.tag = "StartLine" -> <<220, c.line>>
      [] c.tag = "SegmentRemap" -> <<160 + Flag(c.remap)>>
      [] c.tag = "Multiplex" -> <<168, c.ratio>>
      [] c.tag = "ReverseComDir" -> <<192 + 8 * Flag(c.rev)>>
      [] c.tag = "DisplayOffset" -> <<211, c.offset>>
      [] c.tag = "ComPinConfig" -> <<218, 2 + 16 * Flag(c.alt)>>
      [] c.tag = "DisplayClockDiv" -> <<213, 16 * (c.fosc % 16) + (c.div % 16)>>
      [] c.tag = "PreChargePeriod" -> <<217, 16 * (c.discharge % 16) + (c.precharge % 16)>>
      [] c.tag = "VcomhDeselect" -> <<219, VcomhByte(c.level)>>
      [] c.tag = "Noop" -> <<227>>
      [] c.tag = "ChargePump" -> <<173, 138 + Flag(c.en)>>

TableLen(c) ==
    IF c.tag \in {"Contrast", "StartLine", "Multiplex", "DisplayOffset", "ComPinConfig",
                  "DisplayClockDiv", "PreChargePeriod", "VcomhDeselect", "ChargePump"}
    THEN 2 ELSE 1

Min(x, y) == IF x < y THEN x ELSE y

\* The bytes of chunk i (from 1) of a buffer, by the specification's rule:
\* 64 bytes each, the last one whatever is left.
SpecChunk(buf, i) == SubSeq(buf, 64 * (i - 1) + 1, Min(64 * i, Len(buf)))
SpecChunkCount(buf) == (Len(buf) + 63) \div 64

I2cData == kind = "i2c" /\ call.op = "send_data"
I2cCommands == kind = "i2c" /\ call.op = "send_commands"
SpiSend == kind = "spi" /\ call.op \in {"send_commands", "send_data"}
Sent == cmd # NoCmd /\ call.op = "send_commands"
AllOk(lg) == \A i \in 1..Len(lg) : lg[i].ok

\* C1: for every Command value, Command::send hands send_commands exactly the
\* bytes of the encoding table, 1 or 2 of them as the table lists, and none of
\* the padding bytes of the 7-byte array; the bus carries those bytes.
C1_SendHandsTableBytes ==
    Sent =>
        /\ call.bytes = TableBytes(cmd)
        /\ Len(call.bytes) = TableLen(cmd)
        /\ Len(call.bytes) \in {1, 2}
        /\ IF kind = "i2c"
           THEN Len(log) = 1 /\ log[1].bytes = <<0>> \o TableBytes(cmd)
           ELSE Len(log) = 3 /\ log[2].bytes = TableBytes(cmd)

C1_Witness ==
    /\ Sent
    /\ cmd.tag = "DisplayClockDiv" /\ cmd.fosc = 255 /\ cmd.div = 171
    /\ call.bytes = <<213, 251>>

\* C2: I2C send_data on a non-empty buffer of N bytes, no bus write failing,
\* issues exactly ceil(N/64) page-select/data pairs, the data write of chunk i
\* being 0x40 followed by exactly that chunk's bytes (the last chunk may be
\* shorter), and returns success.
C2_ChunkedPairs ==
    (I2cData /\ Len(call.bytes) > 0 /\ env.failAt = 0) =>
        /\ res = Ok
        /\ Len(log) = 2 * SpecChunkCount(call.bytes)
        /\ \A i \in 1..SpecChunkCount(call.bytes) :
              /\ log[2 * i - 1].bytes = <<0, i - 1, 0, 16>>
              /\ log[2 * i].bytes = <<64>> \o SpecChunk(call.bytes, i)

\* What the code does with the 130-byte buffer of C2: two pairs, then a panic.
C2_Code130 ==
    (I2cData /\ Len(call.bytes) = 130 /\ env.failAt = 0) =>
        res = Panic /\ Len(log) = 4

\* C3: I2C send_data with a buffer of exactly 64 bytes and no failing write
\* issues exactly two bus writes, the page-select write carrying page 0 and
\* then one 65-byte data write, 0x40 followed by the 64 buffer bytes in order,
\* and returns success.
C3_OneChunk ==
    (I2cData /\ Len(call.bytes) = 64 /\ env.failAt \notin {1, 2}) =>
        /\ Len(log) = 2
        /\ log[1] = Event("i2c_write", addr, <<0, 0, 0, 16>>, TRUE, "none")
        /\ Len(log[2].bytes) = 65
        /\ log[2].bytes[1] = 64
        /\ \A j \in 1..64 : log[2].bytes[j + 1] = call.bytes[j]
        /\ log[2].op = "i2c_write" /\ log[2].addr = addr /\ log[2].ok
        /\ res = Ok

C3_Witness ==
    I2cData /\ Len(call.bytes) = 64 /\ env.failAt = 0 /\ Len(log) = 2 /\ res = Ok

\* C4: I2C send_data with an empty buffer issues no bus write and returns
\* success, after any calls and whatever the bus would answer.
C4_EmptyBuffer ==
    (I2cData /\ Len(call.bytes) = 0) => (log = <<>> /\ res = Ok)

C4_Witness ==
    I2cData /\ Len(call.bytes) = 0 /\ pageBefore > 0 /\ env.failAt = 1 /\ log = <<>>

\* C5: I2C send_commands with L command bytes, 0 <= L <= 7, issues exactly one
\* bus write, to the address given at construction, of L + 1 bytes: 0x00 and
\* then the L command bytes unchanged and in order.
C5_CommandFrame ==
    (I2cCommands /\ Len(call.bytes) <= 7) =>
        /\ Len(log) = 1
        /\ log[1].op = "i2c_write"
        /\ log[1].addr = addr /\ addr \in {DefaultAddr, AltAddr}
        /\ Len(log[1].bytes) = Len(call.bytes) + 1
        /\ log[1].bytes[1] = 0
        /\ \A j \in 1..Len(call.bytes) : log[1].bytes[j + 1] = call.bytes[j]

C5_Witness ==
    I2cCommands /\ Len(call.bytes) = 7 /\ addr = AltAddr /\ Len(log) = 1 /\ log[1].ok

\* The i-th bus write (from 1) send_data is to issue for a buffer: the
\* page-select write of chunk (i + 1) / 2 when i is odd, its page byte the
\* chunk's index as one byte holds it, and its data write when i is even.
ExpectedWrite(buf, i) ==
    IF i % 2 = 1
    THEN <<0, ((i - 1) \div 2) % 256, 0, 16>>
    ELSE <<64>> \o SpecChunk(buf, i \div 2)

SomeFailed(lg) == \E i \in 1..Len(lg) : ~lg[i].ok
DataWritesDone(lg) == {i \in 1..Len(lg) : lg[i].ok /\ lg[i].bytes[1] = 64}

\* C6: a bus write failing during I2C send_data makes the call return that
\* failure, as a communication failure, with the failed write the last one
\* issued; the writes before it succeeded and stay as issued. A failure in the
\* second chunk (its page-select or its data write) finds exactly chunk 0
\* written: its page-select and its data write, and no other data write; a
\* failure of the second chunk's page-select write finds exactly those two.
C6_FailureAborts ==
    I2cData =>
        /\ SomeFailed(log) => res.tag = "Err"
        /\ res.tag = "Err" =>
              /\ res = ErrorComm(env.busErr)
              /\ Len(log) = env.failAt
              /\ ~log[Len(log)].ok
              /\ \A i \in 1..Len(log) :
                    /\ log[i].bytes = ExpectedWrite(call.bytes, i)
                    /\ i < Len(log) => log[i].ok
              /\ env.failAt \in {3, 4} => DataWritesDone(log) = {2}
              /\ env.failAt = 3 => {i \in 1..Len(log) : log[i].ok} = {1, 2}

C6_Witness ==
    /\ I2cData /\ Len(call.bytes) = 128 /\ env.failAt = 3
    /\ res = ErrorComm("BusArbitrationLoss") /\ Len(log) = 3

\* C7: on the SPI interface, after a successful init and while no step has
\* failed, every send_commands / send_data call performs exactly set-low, one
\* stream write of exactly the given bytes, set-high; with a chip-select line,
\* the line is high before the call, low during the write and high after it.
C7_ChipSelectFraming ==
    (SpiSend /\ healthy) =>
        /\ Len(log) = 3
        /\ log[1].op = "cs_low" /\ log[1].ok
        /\ log[2].op = "spi_write" /\ log[2].ok /\ log[2].bytes = call.bytes
        /\ log[3].op = "cs_high" /\ log[3].ok
        /\ res = Ok
        /\ csKind = "pin" =>
              /\ csBefore = "high" /\ log[1].cs = "high"
              /\ log[2].cs = "low"
              /\ csLevel = "high"

C7_Witness ==
    /\ SpiSend /\ healthy /\ csKind = "pin" /\ call.op = "send_data"
    /\ Len(call.bytes) = 130 /\ Len(log) = 3 /\ log[2].cs = "low" /\ csLevel = "high"

\* C8: in SPI send_commands and send_data the first failing step ends the call
\* and its failure is returned, no later step being attempted: a failed
\* set-low is followed by no stream write and no set-high; a failed stream
\* write is followed by no set-high, and the chip-select line stays low.
C8_FirstFailureEnds ==
    SpiSend =>
        /\ SomeFailed(log) => res.tag = "Err"
        /\ res.tag = "Err" =>
              /\ Len(log) = env.failAt
              /\ ~log[Len(log)].ok
              /\ \A i \in 1..(Len(log) - 1) : log[i].ok
        /\ (Len(log) >= 1 /\ ~log[1].ok) =>
              /\ log[1].op = "cs_low" /\ Len(log) = 1
              /\ res = ErrorPin(env.pinErr)
              /\ csLevel = csBefore
        /\ (Len(log) >= 2 /\ ~log[2].ok) =>
              /\ log[2].op = "spi_write" /\ Len(log) = 2
              /\ res = ErrorComm(env.busErr)
              /\ csKind = "pin" => csLevel = "low"

C8_Witness ==
    /\ SpiSend /\ call.op = "send_commands" /\ csKind = "pin" /\ csBefore = "high"
    /\ Len(log) = 2 /\ ~log[2].ok /\ csLevel = "low" /\ res.tag = "Err"

IsBusWrite(ev) == ev.op \in {"i2c_write", "spi_write"}
IsPinSet(ev) == ev.op \in {"cs_low", "cs_high", "dc_low", "dc_high"}

\* C9: a failure returned because a bus write failed is a communication
\* failure carrying the bus's error value, one returned because a chip-select
\* set operation failed is a pin failure carrying the pin's error value, every
\* returned failure is one of the two, and the I2C interface never returns a
\* pin failure.
C9_ErrorKinds ==
    /\ res.tag = "Err" =>
          /\ Len(log) >= 1 /\ ~log[Len(log)].ok
          /\ IsBusWrite(log[Len(log)]) => res = ErrorComm(env.busErr)
          /\ IsPinSet(log[Len(log)]) => res = ErrorPin(env.pinErr)
          /\ IsBusWrite(log[Len(log)]) \/ IsPinSet(log[Len(log)])
    /\ \A i \in 1..Len(log) :
          ~log[i].ok =>
              /\ res.tag = "Err"
              /\ res.kind = (IF IsBusWrite(log[i]) THEN "Comm" ELSE "Pin")
    /\ kind = "i2c" => res.kind # "Pin"

C9_Witness ==
    /\ kind = "spi" /\ call.op = "send_data" /\ env.failAt = 3
    /\ env.busErr = "BusArbitrationLoss" /\ res = ErrorPin("PinBusy")

\* C10: the page counter of I2C send_data is not kept across calls: whatever
\* the counter was left at by earlier calls (multi-chunk or failed ones
\* included), the first page-select write of a send_data call carries page 0,
\* and the i-th write of the call is the one its own buffer determines.
C10_PageRestarts ==
    (I2cData /\ Len(log) >= 1) =>
        /\ log[1].bytes = <<0, 0, 0, 16>>
        /\ \A i \in 1..Len(log) : log[i].bytes = ExpectedWrite(call.bytes, i)

C10_Witness ==
    /\ I2cData /\ pageBefore = 2 /\ Len(call.bytes) = 128 /\ Len(log) = 4
    /\ log[1].bytes = <<0, 0, 0, 16>> /\ log[3].bytes = <<0, 1, 0, 16>>

\* C11: Page::from(r) for r in 0..127 is the page of index floor(r / 8), so
\* 0..7 give Page0, 8..15 give Page1 and 127 gives Page15, always one of the
\* 16 pages; for r in 128..255 it is a panic: no Page and no returned error.
C11_PageFrom ==
    call.op = "Page::from" =>
        LET r == call.bytes[1]
        IN  /\ r <= 127 =>
                  /\ res.tag = "Ok" /\ res.kind = "Page"
                  /\ res.val \in Pages
                  /\ PageIndex(res.val) = r \div 8
                  /\ PageIndex(res.val) \in 0..15
            /\ r \in 0..7 => res.val = "Page0"
            /\ r \in 8..15 => res.val = "Page1"
            /\ r = 127 => res.val = "Page15"
            /\ r >= 128 => res = Panic

C11_Witness ==
    call.op = "Page::from" /\ call.bytes = <<128>> /\ res = Panic

\* C12: SPI init performs exactly one operation, setting chip-select high: no
\* stream write and no set-low; it returns success when the pin accepts the
\* operation and a pin failure, with the pin's error value, when it does not.
C12_SpiInit ==
    (kind = "spi" /\ call.op = "init") =>
        /\ Len(log) = 1
        /\ log[1].op = "cs_high"
        /\ log[1].bytes = <<>>
        /\ res = (IF log[1].ok THEN Ok ELSE ErrorPin(env.pinErr))
        /\ (csKind = "pin" /\ env.failAt = 1) => ~log[1].ok
        /\ (csKind = "pin" /\ log[1].ok) => csLevel = "high"
        /\ healthy = log[1].ok

C12_Witness ==
    /\ kind = "spi" /\ call.op = "init" /\ csKind = "pin" /\ csBefore = "low"
    /\ env.failAt = 0 /\ res = Ok /\ csLevel = "high"

\* C13: the unused pin's set-low and set-high succeed in every state, whatever
\* the hardware of the run rejects, and change nothing; so an SPI interface
\* whose chip-select is the unused pin never fails with a pin failure, only
\* with a communication failure.
C13_NoOutputPin ==
    (kind = "spi" /\ csKind = "none") =>
        /\ \A i \in 1..Len(log) : IsPinSet(log[i]) => (log[i].ok /\ log[i].cs = "none")
        /\ csLevel = "none" /\ csBefore = "none"
        /\ res.kind # "Pin"
        /\ res.tag = "Err" => res = ErrorComm(env.busErr)
        /\ (call.op = "init" \/ env.failAt \in {1, 3}) => res.tag # "Err"

C13_Witness ==
    /\ kind = "spi" /\ csKind = "none" /\ call.op = "send_data"
    /\ env.failAt = 1 /\ Len(log) = 3 /\ res = Ok

\* C14: in every run of I2C send_data the bus writes are alternating
\* page-select / data writes to the configured address: the i-th page-select
\* write (from 0) is [0x00, i, 0x00, 0x10] and comes right before the data
\* write of chunk i, and every data write follows a page-select write that
\* succeeded.
C14_AlternatingPairs ==
    I2cData =>
        \A i \in 1..Len(log) :
            /\ log[i].op = "i2c_write" /\ log[i].addr = addr
            /\ i % 2 = 1 =>
                  /\ log[i].bytes = <<0, (i - 1) \div 2, 0, 16>>
                  /\ Len(log[i].bytes) = 4
            /\ i % 2 = 0 =>
                  /\ log[i].bytes[1] = 64 /\ Len(log[i].bytes) = 65
                  /\ SubSeq(log[i].bytes, 2, 65) = SpecChunk(call.bytes, i \div 2)
                  /\ log[i - 1].ok /\ log[i - 1].bytes[2] = (i \div 2) - 1

\* What the code does for C14: the pairs alternate as stated, the page byte
\* of the i-th page-select write being i as one byte holds it (i modulo 256).
C14_CodePairsModulo256 ==
    I2cData =>
        \A i \in 1..Len(log) :
            /\ log[i].op = "i2c_write" /\ log[i].addr = addr
            /\ i % 2 = 1 => log[i].bytes = <<0, ((i - 1) \div 2) % 256, 0, 16>>
            /\ i % 2 = 0 =>
                  /\ log[i].bytes = <<64>> \o SpecChunk(call.bytes, i \div 2)
                  /\ Len(log[i].bytes) = 65
                  /\ log[i - 1].ok

\* What the code does at the end of the counter's range, every write accepted
\* up to the 512th: 255 chunks are written and the call succeeds; with 256 or
\* more chunks a build with overflow checks panics after the 256th pair, and
\* a build without them goes on with page 0 for the 257th chunk.
C14_CodeAtCounterLimit ==
    (I2cData /\ Len(call.bytes) >= 255 * 64 /\ env.failAt \notin 1..512) =>
        LET n == Len(call.bytes) \div 64
        IN  /\ n = 255 => (res = Ok /\ Len(log) = 510 /\ page = 255)
            /\ (n >= 256 /\ overflowChecks) =>
                  /\ res = Panic /\ Len(log) = 512
                  /\ log[511].bytes = <<0, 255, 0, 16>>
            /\ (n = 256 /\ ~overflowChecks) => (res = Ok /\ Len(log) = 512 /\ page = 0)
            /\ (n = 257 /\ ~overflowChecks) =>
                  /\ log[513].bytes = <<0, 0, 0, 16>>
                  /\ IF env.failAt = 513
                     THEN res = ErrorComm(env.busErr) /\ Len(log) = 513 /\ page = 0
                     ELSE res = Ok /\ Len(log) = 514 /\ page = 1

\* C15: the page-select frame I2C send_data writes for page p is 0x00
\* followed by the bytes Command::send encodes for PageAddress(p),
\* ColumnAddressLow(0) and ColumnAddressHigh(0); its page byte is 0xB0 | p.
C15_PageSelectIsEncoded ==
    I2cData =>
        \A i \in 1..Len(log) :
            i % 2 = 1 =>
                LET p == PageOrder[((i - 1) \div 2) + 1]
                IN  /\ log[i].bytes =
                          <<0>> \o CommandSlice(Encode([tag |-> "PageAddress", page |-> p]))
                                \o CommandSlice(Encode([tag |-> "ColumnAddressLow", addr |-> 0]))
                                \o CommandSlice(Encode([tag |-> "ColumnAddressHigh", addr |-> 0]))
                    /\ log[i].bytes[2] = 176 + ((i - 1) \div 2)

\* What the code writes instead for C15: the raw counter as the page byte,
\* which for page 0 is the byte of ColumnAddressLow(0).
C15_CodeRawPage ==
    (I2cData /\ Len(log) >= 1) =>
        /\ log[1].bytes = <<0, 0, 0, 16>>
        /\ <<log[1].bytes[2]>> = CommandSlice(Encode([tag |-> "ColumnAddressLow", addr |-> 0]))

\* C16: for every buffer length, the page value carried by every page-select
\* write of I2C send_data is a valid page index, in 0..15.
C16_PageInRange ==
    I2cData =>
        \A i \in 1..Len(log) : i % 2 = 1 => log[i].bytes[2] \in 0..15

\* What the code does with the 17-chunk buffer of C16: the 17th page-select
\* write carries page 16.
C16_Code17Chunks ==
    (I2cData /\ Len(call.bytes) = 17 * 64 /\ env.failAt = 0) =>
        Len(log) = 34 /\ log[33].bytes = <<0, 16, 0, 16>> /\ res = Ok

\* C17: no operation of the SPI interface, succeeding or failing, sets the
\* data/command pin: after any sequence of calls it has received no set
\* operation, and no call's hardware operations include one.
C17_DcUntouched ==
    /\ dcOps = 0
    /\ \A i \in 1..Len(log) : log[i].op \notin {"dc_low", "dc_high"}

C17_Witness ==
    /\ kind = "spi" /\ call.op = "send_commands" /\ healthy /\ Len(log) = 3
    /\ res = Ok /\ dcOps = 0

\* C18: parameters packed by bitmask are cut to their low 4 bits: the bytes
\* sent for ColumnAddressLow(a), ColumnAddressHigh(a), DisplayClockDiv(f, d)
\* and PreChargePeriod(f, d) are those of the same command with each parameter
\* taken modulo 16; ColumnAddressLow yields a byte in 0x00..0x0F,
\* ColumnAddressHigh one in 0x10..0x1F, and the opcode byte 0xD5 / 0xD9 is
\* never altered.
C18_LowNibbleOnly ==
    Sent =>
        /\ cmd.tag = "ColumnAddressLow" =>
              /\ call.bytes = CommandSlice(Encode([cmd EXCEPT !.addr = @ % 16]))
              /\ Len(call.bytes) = 1 /\ call.bytes[1] \in 0..15
              /\ call.bytes[1] = cmd.addr % 16
        /\ cmd.tag = "ColumnAddressHigh" =>
              /\ call.bytes = CommandSlice(Encode([cmd EXCEPT !.addr = @ % 16]))
              /\ Len(call.bytes) = 1 /\ call.bytes[1] \in 16..31
              /\ call.bytes[1] - 16 = cmd.addr % 16
        /\ cmd.tag = "DisplayClockDiv" =>
              /\ call.bytes =
                    CommandSlice(Encode([cmd EXCEPT !.fosc = @ % 16, !.div = @ % 16]))
              /\ call.bytes[1] = 213
              /\ call.bytes[2] \div 16 = cmd.fosc % 16
              /\ call.bytes[2] % 16 = cmd.div % 16
        /\ cmd.tag = "PreChargePeriod" =>
              /\ call.bytes =
                    CommandSlice(Encode([cmd EXCEPT !.discharge = @ % 16,
                                                    !.precharge = @ % 16]))
              /\ call.bytes[1] = 217
              /\ call.bytes[2] \div 16 = cmd.discharge % 16
              /\ call.bytes[2] % 16 = cmd.precharge % 16

C18_Witness ==
    Sent /\ cmd.tag = "ColumnAddressHigh" /\ cmd.addr = 255 /\ call.bytes = <<31>>

\* C19: every call of init, send_commands (of at most 7 bytes) and send_data,
\* on either interface and for every buffer length, returns success or a
\* failure, and no hardware operation is issued after one failed.
C19_CallsReturn ==
    (call.op \in {"init", "send_data"}
        \/ (call.op = "send_commands" /\ Len(call.bytes) <= 7)) =>
        /\ res.tag \in {"Ok", "Err"}
        /\ \A i \in 1..Len(log) : ~log[i].ok => i = Len(log)

\* What the code does for C19: no operation follows a failed one in any call,
\* and a call returns success or a failure unless it is an I2C send_data whose
\* buffer length is no multiple of 64 (the panic of C2) or, in a build with
\* overflow checks, one of 256 chunks or more (the counter's overflow).
C19_CodeReturnsOnWholeChunks ==
    /\ \A i \in 1..Len(log) : ~log[i].ok => i = Len(log)
    /\ ((call.op \in {"init", "send_data"}
            \/ (call.op = "send_commands" /\ Len(call.bytes) <= 7))
        /\ ~(I2cData /\ Len(call.bytes) % 64 # 0)
        /\ ~(I2cData /\ overflowChecks /\ Len(call.bytes) >= 256 * 64))
        => res.tag \in {"Ok", "Err"}

\* C20: I2C send_commands accepts exactly the sequences of at most 7 bytes:
\* each of them, and so each one Command::send produces, fits the 8-byte frame
\* and is written; a longer one is a panic raised before any bus write, not a
\* returned error.
C20_SevenByteLimit ==
    /\ Sent => Len(call.bytes) <= 7
    /\ I2cCommands =>
          /\ Len(call.bytes) <= 7 =>
                /\ res.tag \in {"Ok", "Err"}
                /\ Len(log) = 1
                /\ Len(log[1].bytes) <= 8
                /\ log[1].bytes = <<0>> \o call.bytes
          /\ Len(call.bytes) > 7 => (res = Panic /\ log = <<>>)

C20_Witness ==
    I2cCommands /\ Len(call.bytes) = 9 /\ res = Panic /\ log = <<>>

====
